---- MODULE Spec2Model ----
(***************************************************************************)
(* MinIndexedDHeap (src/unnamed/part_002): an indexed d-ary min-heap.      *)
(* The three backing arrays are JavaScript arrays, so a read outside the   *)
(* array (or of a hole) yields undefined; that outcome is modelled, not    *)
(* excluded.                                                               *)
(***************************************************************************)
EXTENDS Integers, Sequences, FiniteSets, TLC

\* ---------------------------------------------------------------- bounds
NKeys == 3          \* keys are 0 .. NKeys-1
MaxVal == 2         \* values are 0 .. MaxVal (0 is a falsy payload)
MaxDegree == 3      \* constructor argument degree is 1 .. MaxDegree
MaxQueue == 3       \* a Queue holds at most MaxQueue elements
MaxCapacity == 3    \* a CircularBuffer is built with capacity 1 .. MaxCapacity
MaxEnqueued == 4    \* CircularBuffer.enqueue is called while sz < MaxEnqueued
MaxBinary == 3      \* a MinBinaryHeap holds at most MaxBinary elements
DoubleMax == 7      \* stands for Number.MAX_VALUE: an index below -DoubleMax is -Infinity

Keys == 0 .. (NKeys - 1)
Vals == 0 .. MaxVal

\* the extraction-order scenario of the documentation: key k is added with
\* value ScenarioValues[k + 1]
ScenarioValues == <<5, 3, 8, 1, 9>>
LoadKeys == 0 .. (Len(ScenarioValues) - 1)
\* the fill-with-updates scenario: key k is added with value
\* RestoreValues[k + 1], and updated with these values
RestoreValues == <<1, 2, 1, 2, 2, 1>>
RestoreKeys == 0 .. (Len(RestoreValues) - 1)
RestoreVals == {RestoreValues[i] : i \in 1 .. Len(RestoreValues)}

\* the indices of values and pm that the model keeps track of
Slots == Keys \cup LoadKeys \cup RestoreKeys

\* ------------------------------------------------ JavaScript's non-values
Undef == -2         \* undefined: a never-written array slot, heap[p] out of bounds
Null == -1          \* null: values[key] after deleteKey
NotPresent == -1    \* pm[key] after deleteKey
Thrown == -3        \* marker: the scan of sink's for-loop raised

VARIABLES d, sz, values, heap, pm, op, arg, ret

\* LinkedList.list (of the list a Queue owns) and the LinkedListNode objects
VARIABLES list, nodes

\* CircularBuffer: capacity, list, sz, readIndex, writeIndex
VARIABLES capacity, cbList, cbSz, readIndex, writeIndex

\* MinBinaryHeap: heap (the array and its properties under negative indices),
\* and the locals of a poll() that is running: where it is, sink's k,
\* removeAt's removedValue and elementToBeHeapified
VARIABLES binHeap, binProps, binPc, sinkK, removedValue, elementToBeHeapified

heapVars == <<d, sz, values, heap, pm>>

listVars == <<list, nodes>>

bufferVars == <<capacity, cbList, cbSz, readIndex, writeIndex>>

binaryVars == <<binHeap, binProps, binPc, sinkK, removedValue, elementToBeHeapified>>

vars == <<d, sz, values, heap, pm, op, arg, ret, list, nodes,
          capacity, cbList, cbSz, readIndex, writeIndex,
          binHeap, binProps, binPc, sinkK, removedValue, elementToBeHeapified>>

\* the object, as the record the methods work on
this == [d |-> d, sz |-> sz, values |-> values, heap |-> heap, pm |-> pm, err |-> FALSE]

\* ----------------------------------------------------------- return values
RetBool(b) == [tag |-> "bool", b |-> b, v |-> Undef]
RetVal(v) == [tag |-> IF v = Null THEN "null" ELSE "val", b |-> FALSE, v |-> v]
RetNull == RetVal(Null)
RetVoid == [tag |-> "void", b |-> FALSE, v |-> Undef]
RetThrow == [tag |-> "throw", b |-> FALSE, v |-> Undef]

Max(a, b) == IF a >= b THEN a ELSE b

\* ------------------------------------------------------------ array reads
\* heap[p]: undefined outside [0, heap.length)
HeapAt(self, p) == IF p >= 0 /\ p < Len(self.heap) THEN self.heap[p + 1] ELSE Undef

\* values[key]: undefined when key is undefined
ValueAt(self, key) == IF key \in Slots THEN self.values[key] ELSE Undef

\* heap[p] = k: an assignment past the end grows the array, leaving holes
SetAt(h, p, k) ==
  IF p < 0 THEN h
  ELSE IF p < Len(h) THEN [h EXCEPT ![p + 1] = k]
  ELSE h \o [i \in 1 .. (p - Len(h)) |-> Undef] \o <<k>>

\* pm[key] = p: a write under the key undefined does not touch any index
SetPm(m, key, p) == IF key \in Slots THEN [m EXCEPT ![key] = p] ELSE m

\* !x of JavaScript for the values the store can hold
Falsy(v) == v = Undef \/ v = Null \/ v = 0

\* ------------------------------------------------------------- comparator
\* utils.defaultCompare: natural ascending order; a < b is false when either
\* operand is undefined
defaultCompare(a, b) ==
  IF a = Undef \/ b = Undef THEN (IF a = b THEN 0 ELSE 1)
  ELSE IF a < b THEN -1
  ELSE IF a = b THEN 0
  ELSE 1

compare(a, b) == defaultCompare(a, b)

\* ---------------------------------------------------------------- niceties
size(self) == self.sz

isEmpty(self) == size(self) = 0

\* contains without the test for the deleted marker
contains_undefinedOnly(self, key) == self.pm[key] # Undef

contains(self, key) == self.pm[key] # Undef /\ self.pm[key] # NotPresent

\* ----------------------------------------------------------------- helpers
getChildrenPositions(self, parentIndex) == [i \in 1 .. self.d |-> parentIndex * self.d + 1]

getParentPosition(self, childIndex) == (childIndex - 1) \div self.d

\* lessForPositions raises when either resolved value is null
lessForPositionsThrows(self, positionA, positionB) ==
  \/ ValueAt(self, HeapAt(self, positionA)) = Null
  \/ ValueAt(self, HeapAt(self, positionB)) = Null

lessForPositions(self, positionA, positionB) ==
  compare(ValueAt(self, HeapAt(self, positionA)), ValueAt(self, HeapAt(self, positionB))) < 0

lessForValues(a, b) == compare(a, b) < 0

\* swap that moves the keys but records only one of the two new positions
swap_onePosition(self, positionI, positionJ) ==
  LET keyI == HeapAt(self, positionI)
      keyJ == HeapAt(self, positionJ)
      pm1 == SetPm(self.pm, keyI, positionJ)
      heap1 == SetAt(SetAt(self.heap, positionI, keyJ), positionJ, keyI)
  IN [self EXCEPT !.pm = pm1, !.heap = heap1]

swap(self, positionI, positionJ) ==
  LET keyI == HeapAt(self, positionI)
      keyJ == HeapAt(self, positionJ)
      pm1 == SetPm(SetPm(self.pm, keyI, positionJ), keyJ, positionI)
      heap1 == SetAt(SetAt(self.heap, positionI, keyJ), positionJ, keyI)
  IN [self EXCEPT !.pm = pm1, !.heap = heap1]

\* the for-loop of sink over childrenPositions: the position it selects,
\* or Thrown
RECURSIVE smallestChild(_, _, _, _)
smallestChild(self, childrenPositions, i, smallestChildPosition) ==
  IF i > Len(childrenPositions) THEN smallestChildPosition
  ELSE IF lessForPositionsThrows(self, childrenPositions[i], smallestChildPosition) THEN Thrown
  ELSE IF /\ smallestChildPosition < size(self)
          /\ lessForPositions(self, childrenPositions[i], smallestChildPosition)
       THEN smallestChild(self, childrenPositions, i + 1, childrenPositions[i])
       ELSE smallestChild(self, childrenPositions, i + 1, smallestChildPosition)

RECURSIVE sink(_, _)
sink(self, k) ==
  IF self.err THEN self
  ELSE LET childrenPositions == getChildrenPositions(self, k)
           smallestChildPosition == smallestChild(self, childrenPositions, 1, childrenPositions[1])
       IN IF smallestChildPosition = Thrown THEN [self EXCEPT !.err = TRUE]
          ELSE IF lessForPositionsThrows(self, k, smallestChildPosition)
               THEN [self EXCEPT !.err = TRUE]
          ELSE IF \/ smallestChildPosition >= size(self)
                  \/ lessForPositions(self, k, smallestChildPosition)
               THEN self
          ELSE sink(swap(self, k, smallestChildPosition), smallestChildPosition)

RECURSIVE swim(_, _)
swim(self, k) ==
  IF self.err THEN self
  ELSE LET parentPostion == getParentPosition(self, k)
       IN IF k > 0
          THEN IF lessForPositionsThrows(self, k, parentPostion)
               THEN [self EXCEPT !.err = TRUE]
               ELSE IF lessForPositions(self, k, parentPostion)
                    THEN swim(swap(self, k, parentPostion), parentPostion)
                    ELSE self
          ELSE self

\* a method's outcome: the object afterwards and what the call returned
Outcome(self, r) == [self |-> self, ret |-> IF self.err THEN RetThrow ELSE r]

\* ---------------------------------------------------------------- methods
constructor(degree) ==
  [d |-> Max(2, degree), sz |-> 0,
   values |-> [k \in Slots |-> Undef], heap |-> <<>>, pm |-> [k \in Slots |-> Undef],
   err |-> FALSE]

\* add that records the value before it tests for a duplicate
add_overwrites(self, key, value) ==
  LET s0 == [self EXCEPT !.values[key] = value]
  IN IF contains(s0, key) THEN Outcome(s0, RetBool(FALSE))
     ELSE LET s1 == [s0 EXCEPT !.heap = Append(s0.heap, key),
                               !.sz = s0.sz + 1]
              keyPosition == size(s1) - 1
              s2 == [s1 EXCEPT !.pm[key] = keyPosition]
          IN Outcome(swim(s2, keyPosition), RetBool(TRUE))

add(self, key, value) ==
  IF contains(self, key) THEN Outcome(self, RetBool(FALSE))
  ELSE LET s1 == [self EXCEPT !.values[key] = value,
                              !.heap = Append(self.heap, key),
                              !.sz = self.sz + 1]
           keyPosition == size(s1) - 1
           s2 == [s1 EXCEPT !.pm[key] = keyPosition]
       IN Outcome(swim(s2, keyPosition), RetBool(TRUE))

\* peek without the isEmpty guard
peek_noGuard(self) == Outcome(self, RetVal(ValueAt(self, HeapAt(self, 0))))

peek(self) ==
  IF isEmpty(self) THEN Outcome(self, RetNull)
  ELSE Outcome(self, RetVal(ValueAt(self, HeapAt(self, 0))))

valueOf(self, key) ==
  IF ~contains(self, key) THEN Outcome(self, RetNull)
  ELSE Outcome(self, RetVal(self.values[key]))

\* updateKey that inserts a key it does not find
updateKey_upsert(self, key, value) ==
  IF ~contains(self, key) THEN add(self, key, value)
  ELSE IF Falsy(self.values[key]) THEN Outcome(self, RetBool(FALSE))
  ELSE LET s1 == [self EXCEPT !.values[key] = value]
           position == s1.pm[key]
       IN Outcome(swim(sink(s1, position), position), RetBool(TRUE))

updateKey(self, key, value) ==
  IF ~contains(self, key) THEN Outcome(self, RetBool(FALSE))
  ELSE IF Falsy(self.values[key]) THEN Outcome(self, RetBool(FALSE))
  ELSE LET s1 == [self EXCEPT !.values[key] = value]
           position == s1.pm[key]
       IN Outcome(swim(sink(s1, position), position), RetBool(TRUE))

\* decreaseKey that stores the new value only when it is smaller
decreaseKey_conditional(self, key, newValue) ==
  IF ~contains(self, key) THEN Outcome(self, RetBool(FALSE))
  ELSE LET oldValue == self.values[key]
       IN IF Falsy(oldValue) THEN Outcome(self, RetBool(FALSE))
          ELSE LET s2 == IF lessForValues(newValue, oldValue)
                         THEN [self EXCEPT !.values[key] = newValue]
                         ELSE self
                   position == s2.pm[key]
               IN Outcome(swim(sink(s2, position), position), RetBool(TRUE))

decreaseKey(self, key, newValue) ==
  IF ~contains(self, key) THEN Outcome(self, RetBool(FALSE))
  ELSE LET oldValue == self.values[key]
       IN IF Falsy(oldValue) THEN Outcome(self, RetBool(FALSE))
          ELSE LET s1 == [self EXCEPT !.values[key] = newValue]
                   s2 == IF lessForValues(newValue, oldValue)
                         THEN [s1 EXCEPT !.values[key] = newValue]
                         ELSE s1
                   position == s2.pm[key]
               IN Outcome(swim(sink(s2, position), position), RetBool(TRUE))

increaseKey(self, key, newValue) ==
  IF ~contains(self, key) THEN Outcome(self, RetBool(FALSE))
  ELSE LET oldValue == self.values[key]
       IN IF Falsy(oldValue) THEN Outcome(self, RetBool(FALSE))
          ELSE LET s1 == [self EXCEPT !.values[key] = newValue]
                   s2 == IF lessForValues(oldValue, newValue)
                         THEN [s1 EXCEPT !.values[key] = newValue]
                         ELSE s1
                   position == s2.pm[key]
               IN Outcome(swim(sink(s2, position), position), RetBool(TRUE))

\* a pop that was left out
Pop_missing(h) == h

\* Array.prototype.pop: drops the last slot, if there is one
Pop(h) == IF Len(h) = 0 THEN h ELSE SubSeq(h, 1, Len(h) - 1)

\* deleteContained that leaves the position-map entry of the key in place
deleteContained_keepsPm(self, key) ==
  LET value == self.values[key]
  IN IF value = Null THEN Outcome([self EXCEPT !.err = TRUE], RetNull)
     ELSE LET s1 == [self EXCEPT !.values[key] = Null]
              removedNodePosition == s1.pm[key]
              lastNodePosition == size(s1) - 1
              s2 == swap(s1, removedNodePosition, lastNodePosition)
              s3 == [s2 EXCEPT !.heap = Pop(s2.heap), !.sz = s2.sz - 1]
              s4 == swim(sink(s3, removedNodePosition), removedNodePosition)
          IN Outcome(s4, RetVal(value))

\* deleteKey past its contains guard (lines 197-219)
deleteContained(self, key) ==
  LET value == self.values[key]
  IN IF value = Null THEN Outcome([self EXCEPT !.err = TRUE], RetNull)
     ELSE LET s1 == [self EXCEPT !.values[key] = Null]
              removedNodePosition == s1.pm[key]
              lastNodePosition == size(s1) - 1
              s2 == swap(s1, removedNodePosition, lastNodePosition)
              s3 == [s2 EXCEPT !.heap = Pop(s2.heap), !.sz = s2.sz - 1]
              s4 == swim(sink(s3, removedNodePosition), removedNodePosition)
              s5 == IF s4.err THEN s4 ELSE [s4 EXCEPT !.pm[key] = NotPresent]
          IN Outcome(s5, RetVal(value))

\* deleteKey whose guard tests only for a never-written pm entry
deleteKey_undefinedOnly(self, key) ==
  IF self.pm[key] = Undef THEN Outcome(self, RetNull)
  ELSE deleteContained(self, key)

deleteKey(self, key) ==
  IF ~contains(self, key) THEN Outcome(self, RetNull)
  ELSE deleteContained(self, key)

\* poll that removes the key at the last position
poll_last(self) ==
  IF isEmpty(self) THEN Outcome(self, RetNull)
  ELSE deleteKey(self, HeapAt(self, size(self) - 1))

poll(self) ==
  IF isEmpty(self) THEN Outcome(self, RetNull)
  ELSE deleteKey(self, HeapAt(self, 0))

\* clear that forgets to reset the size
clear_keepsSize(self) ==
  Outcome([self EXCEPT !.values = [k \in Slots |-> Undef],
                       !.pm = [k \in Slots |-> Undef],
                       !.heap = <<>>],
          RetVoid)

\* clear that forgets the position map
clear_keepsPm(self) ==
  Outcome([self EXCEPT !.values = [k \in Slots |-> Undef],
                       !.heap = <<>>,
                       !.sz = 0],
          RetVoid)

clear(self) ==
  Outcome([self EXCEPT !.values = [k \in Slots |-> Undef],
                       !.pm = [k \in Slots |-> Undef],
                       !.heap = <<>>,
                       !.sz = 0],
          RetVoid)

\* ------------------------------------------------------------ state machine
\* no Queue has been constructed
NoQueue == list = [head |-> 0, tail |-> 0, size |-> 0] /\ nodes = <<>>

\* no CircularBuffer has been constructed
NoBuffer ==
  /\ capacity = 0
  /\ cbList = <<>>
  /\ cbSz = 0
  /\ readIndex = 0
  /\ writeIndex = 0

\* no MinBinaryHeap has been constructed
NoBinaryHeap ==
  /\ binHeap = <<>>
  /\ binProps = <<>>
  /\ binPc = "none"
  /\ sinkK = 0
  /\ removedValue = Undef
  /\ elementToBeHeapified = Undef

\* the call o(k, ...) ran and produced outcome r
Returns(r, o, k) ==
  /\ UNCHANGED <<listVars, bufferVars, binaryVars>>
  /\ d' = r.self.d
  /\ sz' = r.self.sz
  /\ values' = r.self.values
  /\ heap' = r.self.heap
  /\ pm' = r.self.pm
  /\ op' = o
  /\ arg' = k
  /\ ret' = r.ret

Init ==
  \E degree \in 1 .. MaxDegree :
    LET self == constructor(degree)
    IN /\ d = self.d
       /\ sz = self.sz
       /\ values = self.values
       /\ heap = self.heap
       /\ pm = self.pm
       /\ op = "constructor"
       /\ arg = Undef
       /\ ret = RetVoid
       /\ NoQueue
       /\ NoBuffer
       /\ NoBinaryHeap

Add(key, value) == Returns(add(this, key, value), "add", key)

Peek == Returns(peek(this), "peek", Undef)

ValueOf(key) == Returns(valueOf(this, key), "valueOf", key)

UpdateKey(key, value) == Returns(updateKey(this, key, value), "updateKey", key)

DecreaseKey(key, value) == Returns(decreaseKey(this, key, value), "decreaseKey", key)

IncreaseKey(key, value) == Returns(increaseKey(this, key, value), "increaseKey", key)

DeleteKey(key) == Returns(deleteKey(this, key), "deleteKey", key)

Poll == Returns(poll(this), "poll", Undef)

Clear == Returns(clear(this), "clear", Undef)

Next ==
  \/ \E key \in Keys, value \in Vals : Add(key, value)
  \/ Peek
  \/ \E key \in Keys : ValueOf(key)
  \/ \E key \in Keys, value \in Vals : UpdateKey(key, value)
  \/ \E key \in Keys, value \in Vals : DecreaseKey(key, value)
  \/ \E key \in Keys, value \in Vals : IncreaseKey(key, value)
  \/ \E key \in Keys : DeleteKey(key)
  \/ Poll
  \/ Clear

Spec == Init /\ [][Next]_vars

\* ----------------------------------------------------- the restore step
\* updateKey up to its call of sink: the object and the position it hands
\* to sink and swim
updateKey_beforeSink(self, key, value) ==
  [self |-> [self EXCEPT !.values[key] = value], position |-> self.pm[key]]

\* deleteKey past its guards and up to its call of sink
deleteKey_beforeSink(self, key) ==
  LET s1 == [self EXCEPT !.values[key] = Null]
      removedNodePosition == s1.pm[key]
      lastNodePosition == size(s1) - 1
      s2 == swap(s1, removedNodePosition, lastNodePosition)
  IN [self |-> [s2 EXCEPT !.heap = Pop(s2.heap), !.sz = s2.sz - 1],
      position |-> removedNodePosition]

\* the positions sink(k) hands to lessForPositions
RECURSIVE sinkReads(_, _)
sinkReads(self, k) ==
  IF self.err THEN {}
  ELSE LET childrenPositions == getChildrenPositions(self, k)
           smallestChildPosition == smallestChild(self, childrenPositions, 1, childrenPositions[1])
           read == {k} \cup {childrenPositions[i] : i \in 1 .. Len(childrenPositions)}
       IN IF smallestChildPosition = Thrown THEN read
          ELSE IF lessForPositionsThrows(self, k, smallestChildPosition) THEN read
          ELSE IF \/ smallestChildPosition >= size(self)
                  \/ lessForPositions(self, k, smallestChildPosition)
               THEN read
          ELSE read \cup sinkReads(swap(self, k, smallestChildPosition), smallestChildPosition)

\* the positions swim(k) hands to lessForPositions
RECURSIVE swimReads(_, _)
swimReads(self, k) ==
  IF self.err \/ ~(k > 0) THEN {}
  ELSE LET parentPostion == getParentPosition(self, k)
       IN IF lessForPositionsThrows(self, k, parentPostion) THEN {k, parentPostion}
          ELSE IF lessForPositions(self, k, parentPostion)
               THEN {k, parentPostion} \cup swimReads(swap(self, k, parentPostion), parentPostion)
               ELSE {k, parentPostion}

\* the positions the calls sink(position); swim(position) hand to
\* lessForPositions
restoreReads(self, position) ==
  sinkReads(self, position) \cup swimReads(sink(self, position), position)

\* ------------------------------------------------ fill, with updates
\* a binary heap filled with add(0, v0), add(1, v1), ... whose contained
\* keys are updated in between
InitRestore == Init /\ d = 2

Fill ==
  /\ sz \in RestoreKeys
  /\ values[sz] = Undef
  /\ Add(sz, RestoreValues[sz + 1])

Restore(key, value) == contains(this, key) /\ UpdateKey(key, value)

NextRestore ==
  \/ Fill
  \/ \E key \in RestoreKeys, value \in RestoreVals : Restore(key, value)

SpecRestore == InitRestore /\ [][NextRestore]_vars

\* ------------------------------------------------------- load, then drain
\* add(0, v0), add(1, v1), ... with distinct values, then poll() until the
\* heap is empty
Load(value) ==
  /\ op \in {"constructor", "add"}
  /\ sz \in LoadKeys
  /\ \A k \in 0 .. (sz - 1) : values[k] # value
  /\ Add(sz, value)

Drain == sz > 0 /\ Poll

NextLoad ==
  \/ \E value \in {ScenarioValues[i] : i \in 1 .. Len(ScenarioValues)} : Load(value)
  \/ Drain

SpecLoad == Init /\ [][NextLoad]_vars

\* poll() called until isEmpty(): the keys removed and the values returned
RECURSIVE pollAll(_)
pollAll(self) ==
  IF isEmpty(self) \/ self.err THEN <<>>
  ELSE LET r == poll(self)
       IN <<[key |-> HeapAt(self, 0), value |-> r.ret.v]>> \o pollAll(r.self)

pollValues(self) == LET polled == pollAll(self) IN [i \in 1 .. Len(polled) |-> polled[i].value]

\* a heap of the given degree after add(0, adds[1]), add(1, adds[2]), ...
RECURSIVE buildFrom(_, _, _)
buildFrom(self, adds, i) ==
  IF i > Len(adds) THEN self
  ELSE buildFrom(add(self, i - 1, adds[i]).self, adds, i + 1)

build(degree, adds) == buildFrom(constructor(degree), adds, 1)

\* ------------------------------------------------------ LinkedList, Queue
\* (src/linked-list.ts, src/unnamed/part_000)
NodeIds == 1 .. MaxQueue

\* null, as the value of a next or prev field
NullNode == 0

\* this.list = undefined
NoList == [head |-> NullNode, tail |-> NullNode, size |-> 0]

\* new LinkedListNode(val)
LinkedListNode(val) == [val |-> val, next |-> NullNode, prev |-> NullNode]

\* a node object that is not allocated
FreeNode == [val |-> Undef, next |-> NullNode, prev |-> NullNode]

\* the Queue's list, as the record the methods work on
thisList == [list |-> list, nodes |-> nodes, err |-> FALSE]

\* if (this.list)
HasList(self) == self.list # NoList

\* the node objects reachable from the list: all others are garbage
RECURSIVE Closure(_, _, _)
Closure(ns, S, n) ==
  IF n = 0 THEN S
  ELSE Closure(ns,
               (S \cup {ns[x].next : x \in S} \cup {ns[x].prev : x \in S}) \ {NullNode},
               n - 1)

Live(self) ==
  IF HasList(self) THEN Closure(self.nodes, {self.list.head, self.list.tail}, MaxQueue)
  ELSE {}

\* garbage collection of the unreachable node objects
Collect(self) ==
  [self EXCEPT !.nodes = [n \in NodeIds |-> IF n \in Live(self) THEN self.nodes[n] ELSE FreeNode]]

\* the object a new LinkedListNode(...) yields
NewNodeId(self) ==
  CHOOSE n \in NodeIds : n \notin Live(self) /\ \A m \in NodeIds : m < n => m \in Live(self)

LinkedList_size(self) == IF HasList(self) THEN self.list.size ELSE 0

LinkedList_addBack(self, val) ==
  LET newNode == NewNodeId(self)
      s1 == [self EXCEPT !.nodes[newNode] = LinkedListNode(val)]
  IN IF HasList(s1)
     THEN Outcome([s1 EXCEPT !.nodes[s1.list.tail].next = newNode,
                             !.nodes[newNode].prev = s1.list.tail,
                             !.list.tail = newNode,
                             !.list.size = s1.list.size + 1],
                  RetVoid)
     ELSE Outcome([s1 EXCEPT !.list = [head |-> newNode, tail |-> newNode, size |-> 1]],
                  RetVoid)

LinkedList_peekFront(self) ==
  IF ~HasList(self) THEN Outcome([self EXCEPT !.err = TRUE], RetVoid)
  ELSE Outcome(self, RetVal(self.nodes[self.list.head].val))

LinkedList_removeFront(self) ==
  IF ~HasList(self) THEN Outcome([self EXCEPT !.err = TRUE], RetVoid)
  ELSE LET head == self.list.head
           val == self.nodes[head].val
           next == self.nodes[head].next
       IN IF next # NullNode
          THEN Outcome([self EXCEPT !.nodes[next].prev = NullNode,
                                    !.list.head = next,
                                    !.list.size = -1],
                       RetVal(val))
          ELSE Outcome([self EXCEPT !.list = NoList], RetVal(val))

LinkedList_removeBack(self) ==
  IF ~HasList(self) THEN Outcome([self EXCEPT !.err = TRUE], RetVoid)
  ELSE LET tail == self.list.tail
           val == self.nodes[tail].val
           prev == self.nodes[tail].prev
       IN IF prev # NullNode
          THEN Outcome([self EXCEPT !.nodes[prev].next = NullNode,
                                    !.list.tail = prev,
                                    !.list.size = -1],
                       RetVal(val))
          ELSE Outcome([self EXCEPT !.list = NoList], RetVal(val))

LinkedList_clear(self) == Outcome([self EXCEPT !.list = NoList], RetVoid)

\* [Symbol.iterator]: the values from head along next
RECURSIVE Walk(_, _, _)
Walk(ns, curr, fuel) ==
  IF curr = NullNode \/ fuel = 0 THEN <<>>
  ELSE <<ns[curr].val>> \o Walk(ns, ns[curr].next, fuel - 1)

LinkedList_iterator(self) ==
  IF ~HasList(self) THEN <<>>
  ELSE Walk(self.nodes, self.list.head, MaxQueue + 1)

\* utils.defaultEquals: strict equality
defaultEquals(a, b) == a = b

\* a number returned by a method (an index, which may be -1)
RetNum(n) == [tag |-> "val", b |-> FALSE, v |-> n]

LinkedList_addFront(self, val) ==
  LET newNode == NewNodeId(self)
      s1 == [self EXCEPT !.nodes[newNode] = LinkedListNode(val)]
  IN IF HasList(s1)
     THEN Outcome([s1 EXCEPT !.nodes[s1.list.head].prev = newNode,
                             !.nodes[newNode].next = s1.list.head,
                             !.list.head = newNode,
                             !.list.size = s1.list.size + 1],
                  RetVoid)
     ELSE Outcome([s1 EXCEPT !.list = [head |-> newNode, tail |-> newNode, size |-> 1]],
                  RetVoid)

\* addAt's loop for (let j = 0; j < i - 1; i++) curr = curr.next!, with j = 0
\* throughout: the node it ends on, or Thrown when it reads next of null
RECURSIVE addAtLoop(_, _, _)
addAtLoop(ns, curr, i) ==
  IF ~(0 < i - 1) THEN curr
  ELSE IF curr = NullNode THEN Thrown
  ELSE addAtLoop(ns, ns[curr].next, i + 1)

LinkedList_addAt(self, i, val) ==
  IF i = 0 THEN LinkedList_addFront(self, val)
  ELSE IF i = LinkedList_size(self) THEN LinkedList_addBack(self, val)
  ELSE IF i < 0 \/ i >= LinkedList_size(self) \/ ~HasList(self)
  THEN Outcome([self EXCEPT !.err = TRUE], RetVoid)
  ELSE LET curr == addAtLoop(self.nodes, self.list.head, i)
       IN IF curr = Thrown \/ curr = NullNode
          THEN Outcome([self EXCEPT !.err = TRUE], RetVoid)
          ELSE LET next == self.nodes[curr].next
                   newNode == NewNodeId(self)
               IN IF next = NullNode
                  THEN Outcome([self EXCEPT !.err = TRUE], RetVoid)
                  ELSE Outcome([self EXCEPT !.nodes[newNode] =
                                              [val |-> val, next |-> next, prev |-> curr],
                                            !.nodes[next].prev = newNode,
                                            !.nodes[curr].next = newNode,
                                            !.list.size = self.list.size + 1],
                               RetVoid)

\* the loop of get and removeAt, while (j < i) curr = curr.next!: the node
\* after n steps, or Thrown when a step reads next of null
RECURSIVE Advance(_, _, _)
Advance(ns, curr, n) ==
  IF n = 0 THEN curr
  ELSE IF curr = NullNode THEN Thrown
  ELSE Advance(ns, ns[curr].next, n - 1)

\* the loop of indexOf, while (!equalsF(cur.val, value)): the index it stops
\* at, or Thrown when it reads val of null
RECURSIVE indexOfLoop(_, _, _, _)
indexOfLoop(ns, cur, value, i) ==
  IF cur = NullNode THEN Thrown
  ELSE IF defaultEquals(ns[cur].val, value) THEN i
  ELSE indexOfLoop(ns, ns[cur].next, value, i + 1)

LinkedList_indexOf(self, value) ==
  IF ~HasList(self) THEN Outcome(self, RetNum(-1))
  ELSE LET i == indexOfLoop(self.nodes, self.list.head, value, 0)
       IN IF i = Thrown THEN Outcome([self EXCEPT !.err = TRUE], RetVoid)
          ELSE Outcome(self, RetNum(i))

LinkedList_contains(self, value) ==
  LET index == LinkedList_indexOf(self, value)
  IN IF index.self.err THEN index
     ELSE Outcome(self, RetBool(index.ret.v # -1))

LinkedList_removeAt(self, i) ==
  IF i = 0 THEN LinkedList_removeFront(self)
  ELSE IF i = LinkedList_size(self) - 1 THEN LinkedList_removeBack(self)
  ELSE IF i < 0 \/ i >= LinkedList_size(self) \/ ~HasList(self)
  THEN Outcome([self EXCEPT !.err = TRUE], RetVoid)
  ELSE LET curr == Advance(self.nodes, self.list.head, i)
       IN IF curr = Thrown \/ curr = NullNode
          THEN Outcome([self EXCEPT !.err = TRUE], RetVoid)
          ELSE LET next == self.nodes[curr].next
                   prev == self.nodes[curr].prev
               IN IF next = NullNode
                  THEN Outcome([self EXCEPT !.err = TRUE], RetVoid)
                  ELSE IF prev = NullNode
                  THEN Outcome([self EXCEPT !.nodes[next].prev = prev, !.err = TRUE],
                               RetVoid)
                  ELSE Outcome([self EXCEPT !.nodes[next].prev = prev,
                                            !.nodes[prev].next = next,
                                            !.list.size = -1],
                               RetVal(self.nodes[curr].val))

LinkedList_remove(self, val) ==
  LET index == LinkedList_indexOf(self, val)
  IN IF index.self.err THEN index
     ELSE IF index.ret.v = -1 THEN Outcome([self EXCEPT !.err = TRUE], RetVoid)
     ELSE LinkedList_removeAt(self, index.ret.v)

Queue_constructor == [list |-> NoList, nodes |-> [n \in NodeIds |-> FreeNode], err |-> FALSE]

Queue_isEmpty(self) == ~HasList(self)

Queue_clear(self) == LinkedList_clear(self)

Queue_enqueue(self, element) == LinkedList_addBack(self, element)

\* dequeue that takes from the back
Queue_dequeue_back(self) == LinkedList_removeBack(self)

Queue_dequeue(self) == LinkedList_removeFront(self)

Queue_peekFront(self) == LinkedList_peekFront(self)

Queue_peekBack(self) ==
  IF Queue_isEmpty(self) THEN Outcome(self, RetNull)
  ELSE LinkedList_peekFront(self)

\* no MinIndexedDHeap has been constructed
NoHeap ==
  /\ d = 0
  /\ sz = 0
  /\ values = <<>>
  /\ heap = <<>>
  /\ pm = <<>>

\* the elements of the queue, front first
Items == LinkedList_iterator(thisList)

\* the Queue or LinkedList call o(a) ran and produced outcome r
QueueReturns(r, o, a) ==
  /\ list' = r.self.list
  /\ nodes' = Collect(r.self).nodes
  /\ op' = o
  /\ arg' = a
  /\ ret' = r.ret
  /\ UNCHANGED <<heapVars, bufferVars, binaryVars>>

InitQueue ==
  /\ list = Queue_constructor.list
  /\ nodes = Queue_constructor.nodes
  /\ op = "Queue.constructor"
  /\ arg = Undef
  /\ ret = RetVoid
  /\ NoHeap
  /\ NoBuffer
  /\ NoBinaryHeap

QueueEnqueue(element) ==
  /\ Len(Items) < MaxQueue
  /\ QueueReturns(Queue_enqueue(thisList, element), "Queue.enqueue", element)

QueueDequeue == QueueReturns(Queue_dequeue(thisList), "Queue.dequeue", Undef)

QueuePeekFront == QueueReturns(Queue_peekFront(thisList), "Queue.peekFront", Undef)

QueuePeekBack == QueueReturns(Queue_peekBack(thisList), "Queue.peekBack", Undef)

QueueClear == QueueReturns(Queue_clear(thisList), "Queue.clear", Undef)

NextQueue ==
  \/ \E element \in Vals : QueueEnqueue(element)
  \/ QueueDequeue
  \/ QueuePeekFront
  \/ QueuePeekBack
  \/ QueueClear

SpecQueue == InitQueue /\ [][NextQueue]_vars

\* ------------------------------------------------------------- LinkedList
\* (src/linked-list.ts) a LinkedList used on its own
InitList ==
  /\ list = NoList
  /\ nodes = [n \in NodeIds |-> FreeNode]
  /\ op = "LinkedList.constructor"
  /\ arg = Undef
  /\ ret = RetVoid
  /\ NoHeap
  /\ NoBuffer
  /\ NoBinaryHeap

ListAddFront(val) ==
  /\ Len(Items) < MaxQueue
  /\ QueueReturns(LinkedList_addFront(thisList, val), "LinkedList.addFront", val)

ListAddBack(val) ==
  /\ Len(Items) < MaxQueue
  /\ QueueReturns(LinkedList_addBack(thisList, val), "LinkedList.addBack", val)

ListAddAt(i, val) ==
  /\ Len(Items) < MaxQueue
  /\ QueueReturns(LinkedList_addAt(thisList, i, val), "LinkedList.addAt", i)

ListRemoveFront == QueueReturns(LinkedList_removeFront(thisList), "LinkedList.removeFront", Undef)

ListRemoveBack == QueueReturns(LinkedList_removeBack(thisList), "LinkedList.removeBack", Undef)

ListRemoveAt(i) == QueueReturns(LinkedList_removeAt(thisList, i), "LinkedList.removeAt", i)

ListRemove(val) == QueueReturns(LinkedList_remove(thisList, val), "LinkedList.remove", val)

ListClear == QueueReturns(LinkedList_clear(thisList), "LinkedList.clear", Undef)

ListIndexOf(value) ==
  QueueReturns(LinkedList_indexOf(thisList, value), "LinkedList.indexOf", value)

ListContains(value) ==
  QueueReturns(LinkedList_contains(thisList, value), "LinkedList.contains", value)

\* addAt and removeAt take indices from -2 on: size() can be -1, and then
\* size() - 1 = -2 still reaches removeBack
NextList ==
  \/ \E val \in Vals : ListAddFront(val)
  \/ \E val \in Vals : ListAddBack(val)
  \/ \E i \in (0 - 2) .. MaxQueue, val \in Vals : ListAddAt(i, val)
  \/ ListRemoveFront
  \/ ListRemoveBack
  \/ \E i \in (0 - 2) .. MaxQueue : ListRemoveAt(i)
  \/ \E val \in Vals : ListRemove(val)
  \/ ListClear
  \/ \E value \in Vals : ListIndexOf(value)
  \/ \E value \in Vals : ListContains(value)

SpecList == InitList /\ [][NextList]_vars

\* ---------------------------------------------------------- CircularBuffer
\* (src/unnamed/part_001)

\* a % b of JavaScript: the result has the sign of a
JsRem(a, b) == IF a >= 0 THEN a % b ELSE 0 - ((0 - a) % b)

\* the buffer, as the record the methods work on
thisBuffer ==
  [capacity |-> capacity, list |-> cbList, sz |-> cbSz,
   readIndex |-> readIndex, writeIndex |-> writeIndex, err |-> FALSE]

\* this.list[i]: undefined outside the array and in its holes
ListAt(self, i) == IF i >= 0 /\ i < Len(self.list) THEN self.list[i + 1] ELSE Undef

CircularBuffer_constructor(c) ==
  [capacity |-> c, list |-> [i \in 1 .. c |-> Undef], sz |-> 0,
   readIndex |-> 0, writeIndex |-> 0, err |-> FALSE]

CircularBuffer_size(self) == self.sz

CircularBuffer_isEmpty(self) == CircularBuffer_size(self) = 0

CircularBuffer_clear(self) ==
  Outcome([self EXCEPT !.list = [i \in 1 .. self.capacity |-> Undef], !.sz = 0], RetVoid)

CircularBuffer_enqueue(self, element) ==
  LET s1 == [self EXCEPT !.list = SetAt(self.list, self.writeIndex, element)]
      elementIsOverWritten == s1.sz # 0 /\ s1.readIndex = s1.writeIndex
      s2 == IF elementIsOverWritten
            THEN [s1 EXCEPT !.readIndex = JsRem(s1.readIndex + 1, s1.capacity)]
            ELSE s1
  IN Outcome([s2 EXCEPT !.writeIndex = JsRem(s2.writeIndex + 1, s2.capacity),
                        !.sz = s2.sz + 1],
             RetVoid)

CircularBuffer_dequeue(self) ==
  IF CircularBuffer_isEmpty(self) THEN Outcome(self, RetNull)
  ELSE LET removedVal == ListAt(self, self.readIndex)
       IN Outcome([self EXCEPT !.readIndex = JsRem(self.readIndex - 1, self.capacity),
                               !.sz = self.sz - 1],
                  RetVal(removedVal))

CircularBuffer_peekFront(self) ==
  IF CircularBuffer_isEmpty(self) THEN Outcome(self, RetNull)
  ELSE Outcome(self, RetVal(ListAt(self, self.readIndex)))

CircularBuffer_peekBack(self) ==
  IF CircularBuffer_isEmpty(self) THEN Outcome(self, RetNull)
  ELSE LET i == IF self.writeIndex - 1 < 0 THEN self.capacity - 1 ELSE self.writeIndex - 1
       IN Outcome(self, RetVal(ListAt(self, i)))

\* dequeue() called until isEmpty(): the values returned
RECURSIVE CircularBuffer_drain(_)
CircularBuffer_drain(self) ==
  IF CircularBuffer_isEmpty(self) THEN <<>>
  ELSE LET r == CircularBuffer_dequeue(self)
       IN <<r.ret.v>> \o CircularBuffer_drain(r.self)

\* the CircularBuffer call o(a) ran and produced outcome r
BufferReturns(r, o, a) ==
  /\ capacity' = r.self.capacity
  /\ cbList' = r.self.list
  /\ cbSz' = r.self.sz
  /\ readIndex' = r.self.readIndex
  /\ writeIndex' = r.self.writeIndex
  /\ op' = o
  /\ arg' = a
  /\ ret' = r.ret
  /\ UNCHANGED <<heapVars, listVars, binaryVars>>

InitBuffer ==
  \E c \in 1 .. MaxCapacity :
    LET self == CircularBuffer_constructor(c)
    IN /\ capacity = self.capacity
       /\ cbList = self.list
       /\ cbSz = self.sz
       /\ readIndex = self.readIndex
       /\ writeIndex = self.writeIndex
       /\ op = "CircularBuffer.constructor"
       /\ arg = Undef
       /\ ret = RetVoid
       /\ NoHeap
       /\ NoQueue
       /\ NoBinaryHeap

BufferEnqueue(element) ==
  /\ cbSz < MaxEnqueued
  /\ BufferReturns(CircularBuffer_enqueue(thisBuffer, element), "CircularBuffer.enqueue", element)

BufferDequeue == BufferReturns(CircularBuffer_dequeue(thisBuffer), "CircularBuffer.dequeue", Undef)

BufferClear == BufferReturns(CircularBuffer_clear(thisBuffer), "CircularBuffer.clear", Undef)

BufferPeekFront ==
  BufferReturns(CircularBuffer_peekFront(thisBuffer), "CircularBuffer.peekFront", Undef)

BufferPeekBack ==
  BufferReturns(CircularBuffer_peekBack(thisBuffer), "CircularBuffer.peekBack", Undef)

NextBuffer ==
  \/ \E element \in Vals : BufferEnqueue(element)
  \/ BufferDequeue
  \/ BufferClear
  \/ BufferPeekFront
  \/ BufferPeekBack

SpecBuffer == InitBuffer /\ [][NextBuffer]_vars

\* ---------------------------------------------------------- MinBinaryHeap
\* (src/min-binary-heap.ts)
\* An index is a Number: below -Number.MAX_VALUE it is -Infinity, and
\* -Infinity * 2 - 1 = -Infinity * 2 + 2 = -Infinity.
NegInfinity == 0 - DoubleMax - 1

Double(x) == IF x < 0 - DoubleMax THEN NegInfinity ELSE x

\* the heap, as the record the methods work on
thisBinary == [heap |-> binHeap, props |-> binProps]

MinBinaryHeap_constructor == [heap |-> <<>>, props |-> [i \in NegInfinity .. (0 - 1) |-> Undef]]

\* this.heap[i]: an element, the property kept under a negative index, or
\* undefined
BinaryAt(self, i) ==
  IF i < 0 THEN self.props[i]
  ELSE IF i < Len(self.heap) THEN self.heap[i + 1]
  ELSE Undef

\* this.heap[i] = v: under a negative index it sets a property and leaves
\* the length alone
BinarySet(self, i, v) ==
  IF i < 0 THEN [self EXCEPT !.props[i] = v]
  ELSE [self EXCEPT !.heap = SetAt(self.heap, i, v)]

MinBinaryHeap_size(self) == Len(self.heap)

getLeftChildIndex(parentIndex) == Double(parentIndex * 2 - 1)

getRightChildIndex(parentIndex) == Double(parentIndex * 2 + 2)

getParentIndex(childIndex) == (childIndex - 1) \div 2

less(self, a, b) == compare(BinaryAt(self, a), BinaryAt(self, b)) < 0

MinBinaryHeap_swap(self, i, j) ==
  LET temp == BinaryAt(self, i)
  IN BinarySet(BinarySet(self, i, BinaryAt(self, j)), j, temp)

\* one pass through the body of sink's while (true) at index k0: the heap
\* and k after it, and whether it left the loop
sinkBody(self, k0) ==
  LET leftChildIndex == getLeftChildIndex(k0)
      rightChildIndex == getRightChildIndex(k0)
      isRightChildSmallerThanLeft ==
        rightChildIndex < MinBinaryHeap_size(self) /\ less(self, rightChildIndex, leftChildIndex)
      smallestChildIndex ==
        IF isRightChildSmallerThanLeft THEN rightChildIndex ELSE leftChildIndex
      childrenAreOutOfBounds == leftChildIndex >= MinBinaryHeap_size(self)
      elementIsLessThanChildren == less(self, k0, smallestChildIndex)
  IN IF childrenAreOutOfBounds \/ elementIsLessThanChildren
     THEN [self |-> self, k |-> k0, break |-> TRUE]
     ELSE [self |-> MinBinaryHeap_swap(self, k0, smallestChildIndex),
           k |-> smallestChildIndex, break |-> FALSE]

RECURSIVE MinBinaryHeap_swim(_, _)
MinBinaryHeap_swim(self, k0) ==
  LET parentIndex == getParentIndex(k0)
  IN IF k0 > 0 /\ less(self, k0, parentIndex)
     THEN MinBinaryHeap_swim(MinBinaryHeap_swap(self, k0, parentIndex), parentIndex)
     ELSE self

MinBinaryHeap_add(self, element) ==
  LET s1 == [self EXCEPT !.heap = Append(self.heap, element)]
      index == MinBinaryHeap_size(s1) - 1
  IN MinBinaryHeap_swim(s1, index)

\* removeAt, steps 1 to 3 and the locals of step 4: up to the call of sink
removeAt_beforeSink(self, indexToRemove) ==
  LET indexOfLastElement == MinBinaryHeap_size(self) - 1
      s1 == MinBinaryHeap_swap(self, indexToRemove, indexOfLastElement)
      s2 == [s1 EXCEPT !.heap = SubSeq(s1.heap, 1, Len(s1.heap) - 1)]
  IN [self |-> s2,
      removedValue |-> BinaryAt(self, indexToRemove),
      isLastElementBeingRemoved |-> indexToRemove = indexOfLastElement,
      elementToBeHeapified |-> BinaryAt(s2, indexToRemove)]

\* the state of the MinBinaryHeap after a step
BinaryBecomes(self, pc, k0, removed, element) ==
  /\ binHeap' = self.heap
  /\ binProps' = self.props
  /\ binPc' = pc
  /\ sinkK' = k0
  /\ removedValue' = removed
  /\ elementToBeHeapified' = element
  /\ UNCHANGED <<heapVars, listVars, bufferVars>>

InitBinary ==
  /\ binHeap = MinBinaryHeap_constructor.heap
  /\ binProps = MinBinaryHeap_constructor.props
  /\ binPc = "idle"
  /\ sinkK = 0
  /\ removedValue = Undef
  /\ elementToBeHeapified = Undef
  /\ op = "MinBinaryHeap.constructor"
  /\ arg = Undef
  /\ ret = RetVoid
  /\ NoHeap
  /\ NoQueue
  /\ NoBuffer

BinaryAdd(element) ==
  /\ binPc = "idle"
  /\ MinBinaryHeap_size(thisBinary) < MaxBinary
  /\ BinaryBecomes(MinBinaryHeap_add(thisBinary, element), "idle", 0, Undef, Undef)
  /\ op' = "MinBinaryHeap.add"
  /\ arg' = element
  /\ ret' = RetVoid

BinaryPeek ==
  /\ binPc = "idle"
  /\ BinaryBecomes(thisBinary, "idle", 0, Undef, Undef)
  /\ op' = "MinBinaryHeap.peek"
  /\ arg' = Undef
  /\ ret' = IF MinBinaryHeap_size(thisBinary) = 0 THEN RetNull
             ELSE RetVal(BinaryAt(thisBinary, 0))

\* poll() is called: it returns at once on an empty heap and when removeAt
\* takes the last element, and enters sink(0) otherwise
BinaryPoll ==
  /\ binPc = "idle"
  /\ op' = "MinBinaryHeap.poll"
  /\ arg' = Undef
  /\ IF MinBinaryHeap_size(thisBinary) = 0
     THEN /\ BinaryBecomes(thisBinary, "idle", 0, Undef, Undef)
          /\ ret' = RetNull
     ELSE LET r == removeAt_beforeSink(thisBinary, 0)
          IN IF r.isLastElementBeingRemoved
             THEN /\ BinaryBecomes(r.self, "idle", 0, Undef, Undef)
                  /\ ret' = RetVal(r.removedValue)
             ELSE /\ BinaryBecomes(r.self, "sink", 0, r.removedValue, r.elementToBeHeapified)
                  /\ ret' = RetVoid

\* the running poll() passes once through sink's loop; when the loop is
\* left, removeAt finishes and poll() returns
BinarySink ==
  /\ binPc = "sink"
  /\ UNCHANGED <<op, arg>>
  /\ LET r == sinkBody(thisBinary, sinkK)
     IN IF r.break
        THEN LET elementDidNotMove == BinaryAt(r.self, 0) = elementToBeHeapified
             IN /\ BinaryBecomes(IF elementDidNotMove THEN MinBinaryHeap_swim(r.self, 0)
                                  ELSE r.self,
                                  "idle", 0, Undef, Undef)
                /\ ret' = RetVal(removedValue)
        ELSE /\ BinaryBecomes(r.self, "sink", r.k, removedValue, elementToBeHeapified)
             /\ ret' = RetVoid

NextBinary ==
  \/ \E element \in Vals : BinaryAdd(element)
  \/ BinaryPeek
  \/ BinaryPoll
  \/ BinarySink

\* a call that is running keeps running: the loop of sink takes its next pass
SpecBinary == InitBinary /\ [][NextBinary]_vars /\ WF_vars(BinarySink)

\* no call has raised so far in this step
NoThrow == ret.tag # "throw"

\* the object after the step
thisNext == [d |-> d', sz |-> sz', values |-> values', heap |-> heap', pm |-> pm', err |-> FALSE]

\* the keys for which contains(key) is true
Contained == {k \in Slots : contains(this, k)}

\* ------------------------------------------------------------------ claims
\* C1: heap order. For every position p in [0, size) and every child
\* position c in p*d+1 .. p*d+d with c < size,
\* compare(values[heap[p]], values[heap[c]]) <= 0.
C1_HeapOrder ==
  \A p \in 0 .. (sz - 1) :
    \A c \in (p * d + 1) .. (p * d + d) :
      c < sz => compare(ValueAt(this, HeapAt(this, p)), ValueAt(this, HeapAt(this, c))) <= 0

\* C2: after every call that returned, pm[heap[p]] = p for every position p
\* in [0, size), and no key occurs twice in heap.
C2_PositionMap ==
  NoThrow =>
    /\ \A p \in 0 .. (sz - 1) : HeapAt(this, p) \in Slots /\ pm[HeapAt(this, p)] = p
    /\ \A i, j \in 1 .. Len(heap) : i # j => heap[i] # heap[j]

\* a deleteKey of a key that was not last has swapped and left two keys
C2_Witness == op = "deleteKey" /\ ret.tag = "val" /\ sz = 2 /\ heap[1] > heap[2]

\* C3: size() = heap.length = the number of keys k with contains(k).
C3_SizeConsistent == size(this) = Len(heap) /\ size(this) = Cardinality(Contained)

\* the heap was cleared and refilled
C3_Witness == op = "add" /\ sz = 2 /\ \E k \in Keys : ~contains(this, k) /\ values[k] = Undef

\* C4: the value peek() or poll() returns from a non-empty heap is <= the
\* value of every contained key (for poll: of every key still contained).
C4_ReturnsMinimum ==
  (op \in {"peek", "poll"} /\ ret.tag = "val") =>
    \A k \in Contained : compare(ret.v, values[k]) <= 0

\* C5: updateKey(key, v) on a contained key returns true and leaves
\* valueOf(key) = v, whatever the key's current value.
C5_UpdateContained ==
  [][\A key \in Keys, value \in Vals :
       (contains(this, key) /\ arg' = key /\ UpdateKey(key, value)) =>
         (ret' = RetBool(TRUE) /\ valueOf(thisNext, key).ret = RetVal(value))]_vars

\* C6: deleteKey(key) on a contained key returns the value the key had;
\* afterwards the key is not contained, valueOf(key) is null, size() is one
\* less, and every other contained key is contained with the same value.
C6_DeleteContained ==
  [][\A key \in Keys :
       (contains(this, key) /\ arg' = key /\ DeleteKey(key)) =>
         /\ ret' = RetVal(values[key])
         /\ ~contains(thisNext, key)
         /\ valueOf(thisNext, key).ret = RetNull
         /\ size(thisNext) = size(this) - 1
         /\ \A other \in Keys \ {key} :
              contains(this, other) =>
                contains(thisNext, other) /\ values'[other] = values[other]]_vars

\* a key was deleted from under two others
C6_Witness == op = "deleteKey" /\ ret.tag = "val" /\ sz = 2 /\ pm[arg] = NotPresent

\* C7: add(key, v2) on a contained key returns false and changes neither
\* values, size, heap nor pm.
C7_AddDuplicate ==
  [][\A key \in Keys, value \in Vals :
       (contains(this, key) /\ arg' = key /\ Add(key, value)) =>
         (ret' = RetBool(FALSE) /\ UNCHANGED <<values, sz, heap, pm>>)]_vars

\* an add was refused
C7_Witness == op = "add" /\ ret = RetBool(FALSE) /\ contains(this, arg) /\ sz >= 2

\* C8: add(key, v) of a key that deleteKey or poll removed returns true,
\* and afterwards the key is contained with value v and size() is one more.
C8_AddAfterRemoval ==
  [][\A key \in Keys, value \in Vals :
       (pm[key] = NotPresent /\ arg' = key /\ Add(key, value)) =>
         /\ ret' = RetBool(TRUE)
         /\ contains(thisNext, key)
         /\ valueOf(thisNext, key).ret = RetVal(value)
         /\ size(thisNext) = size(this) + 1]_vars

\* a removed key is back in the heap, another key still being removed
C8_Witness ==
  /\ op = "add" /\ ret = RetBool(TRUE) /\ contains(this, arg)
  /\ \E k \in Keys : pm[k] = NotPresent

\* C9: on a key that is not contained, updateKey, decreaseKey and
\* increaseKey return false, deleteKey and valueOf return null, and none
\* changes heap, pm, values or size.
C9_KeyNotFound ==
  [][\A key \in Keys :
       (~contains(this, key) /\ arg' = key) =>
         /\ \A value \in Vals :
              (UpdateKey(key, value) \/ DecreaseKey(key, value) \/ IncreaseKey(key, value)) =>
                (ret' = RetBool(FALSE) /\ UNCHANGED <<values, sz, heap, pm>>)
         /\ (DeleteKey(key) \/ ValueOf(key)) =>
              (ret' = RetNull /\ UNCHANGED <<values, sz, heap, pm>>)]_vars

\* deleteKey was called on a key removed before, other keys present
C9_Witness ==
  /\ op = "deleteKey" /\ ret = RetNull /\ values[arg] = Null
  /\ sz >= 1

\* C10: when no key is contained, isEmpty() is true, size() is 0, and
\* peek(), poll() and valueOf(k) return null and change nothing.
C10_EmptyHeap ==
  [][Contained = {} =>
       /\ isEmpty(this) /\ size(this) = 0
       /\ (Peek \/ Poll \/ \E key \in Keys : ValueOf(key)) =>
            (ret' = RetNull /\ UNCHANGED <<values, sz, heap, pm>>)]_vars

\* poll on a heap emptied by removals
C10_Witness ==
  /\ op = "poll" /\ ret = RetNull /\ Contained = {}
  /\ \E k \in Keys : values[k] = Null

\* C11: from the same state decreaseKey(key, v), increaseKey(key, v) and
\* updateKey(key, v) return the same and leave the same heap, pm and values,
\* for every key and every v.
C11_UpdatesAgree ==
  \A key \in Keys, value \in Vals :
    /\ decreaseKey(this, key, value) = updateKey(this, key, value)
    /\ increaseKey(this, key, value) = updateKey(this, key, value)

\* a decreaseKey stored a value that is not smaller than the old one
C11_Witness == op = "decreaseKey" /\ ret = RetBool(TRUE) /\ sz = 3 /\ values[arg] = MaxVal

\* C12: poll() on a non-empty heap returns what deleteKey(heap[0]) returns
\* and leaves the same state; it removes the key at the root position and
\* no other.
C12_PollIsDeleteRoot ==
  [][(Len(heap) > 0 /\ op' = "poll" /\ Poll) =>
       LET root == heap[1]
           r == deleteKey(this, root)
       IN /\ ret' = r.ret
          /\ thisNext = r.self
          /\ ret' = RetVal(values[root])
          /\ ~contains(thisNext, root)
          /\ \A other \in Slots \ {root} : contains(thisNext, other) = contains(this, other)]_vars

\* a poll took the root from under two keys
C12_Witness == op = "poll" /\ ret.tag = "val" /\ sz = 2

\* C15: after clear() size() is 0, isEmpty() is true, no key is contained,
\* valueOf(k) is null for every key, and add(k, v) of any key returns true.
C15_Clear ==
  [][(op' = "clear" /\ Clear) =>
       /\ size(thisNext) = 0
       /\ isEmpty(thisNext)
       /\ \A k \in Slots : ~contains(thisNext, k) /\ valueOf(thisNext, k).ret = RetNull
       /\ \A k \in Keys, v \in Vals : add(thisNext, k, v).ret = RetBool(TRUE)]_vars

\* the heap was cleared
C15_Witness == op = "clear" /\ ret = RetVoid /\ heap = <<>>

\* C16: contains(k) turns true only by add(k, .), turns false only by
\* deleteKey(k), by poll() with k at the root, or by clear(); the update
\* operations change contains of no key, and an operation on another key
\* changes neither contains(k) nor valueOf(k).
C16_KeyLifecycle ==
  [][\A k \in Keys :
       /\ (~contains(this, k) /\ contains(thisNext, k)) => (op' = "add" /\ arg' = k)
       /\ (contains(this, k) /\ ~contains(thisNext, k)) =>
            \/ op' = "deleteKey" /\ arg' = k
            \/ op' = "poll" /\ HeapAt(this, 0) = k
            \/ op' = "clear"
       /\ op' \in {"updateKey", "decreaseKey", "increaseKey"} =>
            contains(thisNext, k) = contains(this, k)
       /\ (/\ op' \in {"add", "updateKey", "decreaseKey", "increaseKey", "deleteKey", "valueOf"}
           /\ arg' # k) =>
            /\ contains(thisNext, k) = contains(this, k)
            /\ valueOf(thisNext, k).ret = valueOf(this, k).ret]_vars

\* a poll removed one key and left others in place
C16_Witness == op = "poll" /\ ret.tag = "val" /\ sz >= 1 /\ \E k \in Keys : pm[k] = NotPresent

\* C17: no public operation raises: neither the comparison error of
\* lessForPositions nor the null-value error of deleteKey is reached.
C17_NoException == op # "constructor" => ret.tag # "throw"

\* a deleteKey ran its restore step over two remaining keys
C17_Witness == op = "deleteKey" /\ ret.tag = "val" /\ sz = 2 /\ heap[1] < heap[2]

\* C13: after add(0,5), add(1,3), add(2,8), add(3,1), add(4,9), five polls
\* return 1,3,5,8,9 and remove the keys 3,1,0,2,4 in that order.
C13_ExtractionOrder ==
  (/\ op = "add"
   /\ sz = Len(ScenarioValues)
   /\ \A k \in LoadKeys : values[k] = ScenarioValues[k + 1]) =>
    pollAll(this) = <<[key |-> 3, value |-> 1], [key |-> 1, value |-> 3],
                      [key |-> 0, value |-> 5], [key |-> 2, value |-> 8],
                      [key |-> 4, value |-> 9]>>

\* C14: for every sequence of adds with distinct values the degree-3 heap
\* and the degree-2 heap return the same values when polled until empty,
\* and the degree-3 heap is heap-ordered after every call.
C14_DegreeIndependent ==
  /\ op \in {"constructor", "add"} =>
       LET adds == [i \in 1 .. sz |-> values[i - 1]]
       IN pollValues(build(3, adds)) = pollValues(build(2, adds))
  /\ d = 3 => C1_HeapOrder

\* C18: enqueue puts its element behind all elements of the queue, and
\* dequeue() on a non-empty queue returns and removes the element at the
\* front, which is the one enqueued earliest among those not yet dequeued;
\* dequeue() on an empty queue throws. The peeks leave the elements alone.
C18_Fifo ==
  [][/\ \A element \in Vals :
          (arg' = element /\ QueueEnqueue(element)) => Items' = Append(Items, element)
     /\ (op' = "Queue.dequeue" /\ QueueDequeue) =>
          IF Items = <<>>
          THEN ret' = RetThrow /\ Items' = <<>>
          ELSE ret' = RetVal(Head(Items)) /\ Items' = Tail(Items)
     /\ op' \in {"Queue.peekFront", "Queue.peekBack"} => Items' = Items]_vars

\* a dequeue took the front element and two elements are left
C18_Witness == op = "Queue.dequeue" /\ ret.tag = "val" /\ Len(Items) = 2 /\ Items[1] # ret.v

\* C19: peekBack() on a non-empty queue returns the element enqueued last
\* and null on an empty queue; it does not change the queue.
C19_PeekBack ==
  op = "Queue.peekBack" =>
    IF Items = <<>> THEN ret = RetNull ELSE ret = RetVal(Items[Len(Items)])

\* C20: a CircularBuffer of capacity c >= 1 always has 0 <= size() <= c,
\* and dequeue() called until isEmpty() returns size() elements.
C20_SizeWithinCapacity ==
  /\ 0 <= CircularBuffer_size(thisBuffer)
  /\ CircularBuffer_size(thisBuffer) <= capacity
  /\ LET drained == CircularBuffer_drain(thisBuffer)
     IN /\ Len(drained) = CircularBuffer_size(thisBuffer)
        /\ \A i \in 1 .. Len(drained) : drained[i] \in Vals

\* C21: CircularBuffer with capacity c >= 2 holding at most c elements:
\* dequeue() returns the elements in the order they were enqueued, readIndex
\* stays in [0, c) and advances by one modulo c on each dequeue, and
\* peekFront() returns the element the next dequeue() returns.
C21_DequeueOrder ==
  [][(capacity >= 2 /\ cbSz <= capacity) =>
       /\ \A element \in Vals :
            (cbSz < capacity /\ arg' = element /\ BufferEnqueue(element)) =>
              CircularBuffer_drain(thisBuffer)' =
                Append(CircularBuffer_drain(thisBuffer), element)
       /\ (cbSz > 0 /\ op' = "CircularBuffer.dequeue" /\ BufferDequeue) =>
            /\ readIndex \in 0 .. (capacity - 1)
            /\ readIndex' = (readIndex + 1) % capacity
            /\ ret' = CircularBuffer_peekFront(thisBuffer).ret]_vars

\* C22: after any sequence of addFront/addBack/addAt/removeFront/
\* removeBack/removeAt/remove/clear calls, size() equals the number of
\* elements the iteration of the list produces, and is never negative.
C22_SizeIsLength ==
  /\ LinkedList_size(thisList) = Len(LinkedList_iterator(thisList))
  /\ LinkedList_size(thisList) >= 0

\* C23: indexOf(value) returns the index of the first occurrence of value,
\* and -1 without raising when the value does not occur in the list, empty
\* or not; contains(value) is true exactly when indexOf(value) is not -1.
C23_IndexOf ==
  LET first == IF \E i \in 1 .. Len(Items) : Items[i] = arg
               THEN (CHOOSE i \in 1 .. Len(Items) :
                       Items[i] = arg /\ \A j \in 1 .. (i - 1) : Items[j] # arg) - 1
               ELSE -1
  IN /\ op = "LinkedList.indexOf" => ret = RetNum(first)
     /\ op = "LinkedList.contains" => ret = RetBool(first # -1)

\* C24: after any sequence of add and poll calls every poll() terminates; on
\* a non-empty heap it returns the smallest element of the heap and removes
\* exactly one occurrence of it, and on an empty heap it returns null.
C24_PollTerminates ==
  /\ [](binPc = "sink" => <>(binPc = "idle"))
  /\ [][(binPc = "idle" /\ op' = "MinBinaryHeap.poll" /\ binHeap = <<>>) =>
          (ret' = RetNull /\ binHeap' = <<>>)]_vars
  /\ [][(binPc = "idle" /\ op' = "MinBinaryHeap.poll" /\ binHeap # <<>>) =>
          LET smallest == IF binPc' = "idle" THEN ret'.v ELSE removedValue'
          IN /\ \A i \in 1 .. Len(binHeap) : compare(smallest, binHeap[i]) <= 0
             /\ \A v \in Vals :
                  Cardinality({i \in 1 .. Len(binHeap') : binHeap'[i] = v}) =
                    Cardinality({i \in 1 .. Len(binHeap) : binHeap[i] = v})
                      - (IF v = smallest THEN 1 ELSE 0)]_vars

\* C25: neither sink nor swim swaps two positions whose values compare
\* equal: updateKey(key, v) with v equal to the value of the key's child or
\* parent, and not out of order with the parent or any child position
\* p*d+1 .. p*d+d, leaves heap and pm unchanged.
C25_TiesDoNotMove ==
  [][\A key \in Keys, value \in Vals :
       LET p == pm[key]
           parentValue == ValueAt(this, HeapAt(this, (p - 1) \div d))
           children == {c \in (p * d + 1) .. (p * d + d) : c < sz}
           childValue(c) == ValueAt(this, HeapAt(this, c))
       IN (/\ contains(this, key)
           /\ arg' = key
           /\ op' = "updateKey"
           /\ UpdateKey(key, value)
           /\ ret' = RetBool(TRUE)
           /\ p > 0 => compare(parentValue, value) <= 0
           /\ \A c \in children : compare(value, childValue(c)) <= 0
           /\ \/ p > 0 /\ compare(parentValue, value) = 0
              \/ \E c \in children : compare(value, childValue(c)) = 0) =>
            (heap' = heap /\ pm' = pm)]_vars

\* C26: with degree d the child positions computed for position p are the
\* d distinct positions p*d+1, p*d+2, ..., p*d+d, and the parent position
\* of p > 0 is floor((p-1)/d).
C26_ChildrenPositions ==
  d > 0 =>
    \A p \in 0 .. NKeys :
      /\ getChildrenPositions(this, p) = [i \in 1 .. d |-> p * d + i]
      /\ p > 0 => getParentPosition(this, p) = (p - 1) \div d

\* C27: every comparison made by sink or swim has both positions inside
\* [0, size) with active keys, or the call fails with an error: a restore
\* step that returns has compared no absent operand.
C27_NoAbsentOperand ==
  [][LET NoneAbsent(r) ==
           \A p \in restoreReads(r.self, r.position) :
             /\ p >= 0
             /\ p < size(r.self)
             /\ ValueAt(r.self, HeapAt(r.self, p)) \notin {Undef, Null}
     IN /\ \A key \in Keys, value \in Vals :
             (/\ contains(this, key)
              /\ arg' = key
              /\ op' = "updateKey"
              /\ UpdateKey(key, value)
              /\ ret' = RetBool(TRUE)) =>
               NoneAbsent(updateKey_beforeSink(this, key, value))
        /\ \A key \in Keys :
             (/\ contains(this, key)
              /\ arg' = key
              /\ op' = "deleteKey"
              /\ DeleteKey(key)
              /\ ret'.tag = "val") =>
               NoneAbsent(deleteKey_beforeSink(this, key))]_vars

\* C28: in the sink-then-swim restore step, started from a state in heap
\* order everywhere except at the restored position, at most one of sink and
\* swim swaps: if sink swapped, the swim after it swaps nothing.
C28_OneOfSinkAndSwim ==
  [][\A key \in RestoreKeys, value \in RestoreVals :
       (/\ contains(this, key)
        /\ arg' = key
        /\ op' = "updateKey"
        /\ UpdateKey(key, value)
        /\ ret' = RetBool(TRUE)) =>
         LET r == updateKey_beforeSink(this, key, value)
             sunk == sink(r.self, r.position)
             swum == swim(sunk, r.position)
             value_(q) == ValueAt(r.self, HeapAt(r.self, q))
             orderExceptAtPosition ==
               \A q \in 0 .. (sz - 1) :
                 \A c \in (q * d + 1) .. (q * d + d) :
                   (c < sz /\ q # r.position /\ c # r.position) =>
                     compare(value_(q), value_(c)) <= 0
         IN (orderExceptAtPosition /\ sunk.heap # r.self.heap) =>
              swum.heap = sunk.heap]_vars

\* C29: deleteKey(key) of the key at the last occupied position moves
\* nothing: the other keys keep their heap positions and pm entries, and no
\* heap slot at or beyond the new size is read as an element.
C29_DeleteLast ==
  [][\A key \in Keys :
       (/\ contains(this, key)
        /\ pm[key] = sz - 1
        /\ arg' = key
        /\ op' = "deleteKey"
        /\ DeleteKey(key)
        /\ ret'.tag = "val") =>
         /\ heap' = Pop(heap)
         /\ \A k \in Slots \ {key} : pm'[k] = pm[k]
         /\ LET r == deleteKey_beforeSink(this, key)
            IN \A p \in restoreReads(r.self, r.position) : p < size(r.self)]_vars
====
